---------------------------- MODULE Spec2Model ----------------------------
(***************************************************************************)
(* The workflow engine of CyberRAGLLM: the graph built by                  *)
(* ControlFlowState.build_graph (src/src/graph/control_flow.py), run over  *)
(* the channels declared by GraphState (src/src/graph/graph_state.py),     *)
(* started the way main.py and server.py start it.                         *)
(*                                                                         *)
(* One node or one conditional-edge function is one action.  The replies   *)
(* of the capabilities (router, retriever, graders, web search, generator) *)
(* are inputs, drawn from small sets.                                      *)
(***************************************************************************)
EXTENDS Integers, Sequences, FiniteSets, TLC

\* ------------------------------------------------------------------ bounds

\* max_retries ranges over -1 .. MaxRetriesBound
MaxRetriesBound == 3
\* the retriever returns at most MaxDocs documents
MaxDocs == 2
\* graph.invoke is called at most MaxRuns times with the same state record,
\* whose max_retries is then in -1 .. MaxRetriesTwice
MaxRuns == 2
MaxRetriesTwice == 1
\* and, when the capabilities are not deterministic, in -1 .. MaxRetriesAgain
MaxRetriesAgain == 0
\* one call with deterministic capabilities has max_retries in
\* -1 .. MaxRetriesDeterministic
MaxRetriesDeterministic == 1
\* two calls in progress at once have max_retries >= 0, with a sum of at
\* most MaxRetriesConcurrent
MaxRetriesConcurrent == 0
\* and their retriever returns at most MaxDocsConcurrent documents
MaxDocsConcurrent == 1

\* No run of the graph is longer than this many node executions (checked as
\* StepCapNotReached); it only keeps a broken variant of the graph finite.
StepCap == 2 * MaxRetriesBound + 6

VARIABLES
    pc,              \* the node or edge function that runs next; "END"; "failed";
                     \* "request" while the server has not yet built the graph;
                     \* "concurrent" when the runs are those of runs
    question,        \* channel question
    documents,       \* channel documents: a sequence of Document
    web_search,      \* channel web_search
    max_retries,     \* channel max_retries
    loop_step,       \* channel loop_step (reducer operator.add)
    generation,      \* channel generation
    answers,         \* channel answers
    callerDocuments, \* the list object the caller put in state["documents"]
    aliased,         \* TRUE while channel documents is that same list object
    routing,         \* history: the router's reply, route_question's label, the first node
    executed,        \* history: the nodes executed so far in this run
    lastGrade,       \* history: the last call of the generate edge function
    allNotGrounded,  \* history: every groundedness grade of the run was "no"
    failure,         \* the function whose exception ended the run, or ""
    lastGrading,     \* what the grade_documents call of this step was given and replied
    lastSearch,      \* what the search tool returned to the web_search call of this step
    history,         \* history: what Retrieve returned, how many documents
                     \* GradeDocuments dropped, the text Generate got last
    deterministic,   \* TRUE when the capabilities are deterministic mocks
    memo,            \* the replies the deterministic mocks have given so far
    run,             \* which call of graph.invoke this is
    result1,         \* what the first call of graph.invoke returned
    caller,          \* who starts the run (the command line or an HTTP request)
                     \* and what it gave
    http,            \* the status of the HTTP response, 0 while there is none
    runs,            \* two calls of graph.invoke in progress at once: for each
                     \* its position and its channels
    lists,           \* the list objects their callers put in state["documents"]
    server           \* two requests at the one event loop of the server: which
                     \* handler holds the loop, and each request's position

vars == <<pc, question, documents, web_search, max_retries, loop_step,
          generation, answers, callerDocuments, aliased, routing, executed, lastGrade,
          allNotGrounded, failure, lastGrading, lastSearch, history, deterministic,
          memo, run,
          result1, caller, http, runs, lists, server>>


\* ------------------------------------------------- replies of the model

\* The content of a reply of the JSON-mode model, by what json.loads makes
\* of it: no JSON at all, or a JSON value of some kind.  An object is given
\* by its one key and that key's value; an array by its one element ("" for
\* the empty array); a string by its text.
Reply(k, key, v) == [kind |-> k, key |-> key, value |-> v]
Invalid == Reply("invalid", "", "")
Obj(key, v) == Reply("object", key, v)
Arr(v) == Reply("array", "", v)
Str(v) == Reply("string", "", v)
Num == Reply("number", "", "")

RouterReplies ==
    { Invalid, Num, Arr(""), Arr("datasource"), Str("datasource"),
      Obj("datasource", "websearch"), Obj("datasource", "vectorstore"),
      Obj("datasource", "banana"), Obj("none", "vectorstore") }

GraderReplies ==
    { Invalid, Obj("other", "yes"), Obj("binary_score", "yes"),
      Obj("binary_score", "no"), Obj("binary_score", "Yes") }

\* the edge function did not call the grader
NotCalled == Reply("not called", "", "")

\* a comparison of grades that is sensitive to letter case (a variant, not
\* the code)
LowerIdentity(v) == v

\* str.lower on the grades the model gives
Lower(v) == IF v \in {"Yes", "YES", "yes"} THEN "yes"
            ELSE IF v \in {"No", "NO", "no"} THEN "no"
            ELSE v

\* a subscript that never raises (a variant, not the code)
SubscriptNeverRaises(reply, key) == FALSE

\* json.loads(content)[key] raises unless content is an object with that key
SubscriptRaises(reply, key) == ~(reply.kind = "object" /\ reply.key = key)

\* ------------------------------------------------------------ documents

Document(content) == [page_content |-> content]

\* what the vector store holds
StoredDocuments == { Document(<<"d1">>), Document(<<"d2">>) }

RECURSIVE SeqsUpTo(_, _)
SeqsUpTo(S, n) ==
    IF n = 0 THEN { <<>> }
    ELSE LET shorter == SeqsUpTo(S, n - 1)
         IN  shorter \cup { Append(s, x) : s \in { t \in shorter : Len(t) = n - 1 }, x \in S }

RetrieverResults == SeqsUpTo(StoredDocuments, MaxDocs)

\* one result of the web search: a mapping with or without a content key
SearchItem(has, c) == [has_content |-> has, content |-> c]
W1 == SearchItem(TRUE, "w1")
W2 == SearchItem(TRUE, "w2")
NoContent == SearchItem(FALSE, "")
\* what the search tool returns: nothing, results without content, results
\* in either order, a result without content among others
SearchResults == { <<>>, <<NoContent>>, <<W1>>, <<W1, W2>>, <<W2, W1>>,
                   <<W1, NoContent, W2>> }

GenerationTexts == { "g1", "g2" }

\* sep.join(parts), parts a sequence of token sequences
RECURSIVE Join(_, _)
Join(sep, parts) ==
    IF parts = <<>> THEN <<>>
    ELSE IF Len(parts) = 1 THEN parts[1]
    ELSE parts[1] \o <<sep>> \o Join(sep, Tail(parts))

format_docs(docs) == Join("\n\n", [i \in 1..Len(docs) |-> docs[i].page_content])

\* the contents of all results, "" for a result without content (a variant,
\* not the code)
ContentsOfEveryResult(results) ==
    [i \in 1..Len(results) |-> <<results[i].content>>]

\* "\n".join([d["content"] for d in docs if "content" in d])
RECURSIVE ContentsOf(_)
ContentsOf(results) ==
    IF results = <<>> THEN <<>>
    ELSE IF results[1].has_content
         THEN << <<results[1].content>> >> \o ContentsOf(Tail(results))
         ELSE ContentsOf(Tail(results))

WebResultsDocument(results) == Document(Join("\n", ContentsOf(results)))

\* ------------------------------------------------------------- channels

\* loop_step: Annotated[int, operator.add]
MergeLoopStep(current, update) == current + update

\* every other channel keeps the last value written
MergeLastValue(current, update) == update

\* -------------------------------------------------- deterministic mocks

NoMemo == [route |-> {}, retrieve |-> {}, search |-> {}, docgrade |-> {},
           gen |-> {}, hall |-> {}, ans |-> {}]

\* a capability free to answer a repeated call differently (a variant, not
\* the code)
AllowedAnything(seen, key, reply) == TRUE

\* a deterministic mock answers a repeated call as it answered it before
Allowed(seen, key, reply) ==
    deterministic => \A p \in seen : p[1] = key => p[2] = reply

Remember(seen, key, reply) ==
    IF deterministic THEN seen \cup { <<key, reply>> } ELSE seen


\* ------------------------------------------------------- the start state

NoRouting == [reply |-> NotCalled, label |-> "", node |-> ""]
NoGrade == [grounded |-> NotCalled, useful |-> NotCalled, loop_step |-> 0,
            label |-> ""]
NoGrading == [documents |-> <<>>, replies |-> <<>>, done |-> FALSE]
NoSearch == [results |-> <<>>, done |-> FALSE]
NoHistory == [retrieved |-> <<>>, graded |-> FALSE, dropped |-> 0, output |-> ""]
NoResult == [returned |-> FALSE, failed |-> FALSE, generation |-> "",
             loop_step |-> 0, web_search |-> "", documents |-> <<>>, label |-> ""]

\* ---------------------------------------------------------- the callers

\* what the caller gave for max_retries: at the prompt of main.py nothing
\* ("empty"), something int() rejects ("text") or an integer ("int"); in
\* the JSON of a request no field ("absent"), null or an integer
RetriesInput(k, v) == [kind |-> k, value |-> v]

CliInputs ==
    { RetriesInput("empty", 0), RetriesInput("text", 0) }
        \cup { RetriesInput("int", n) : n \in -1..MaxRetriesBound }

\* "default is 3" at the prompt of main.py
DefaultMaxRetries == 3

\* main.py keeping 0 for an input int() rejects (a variant, not the code)
CliMaxRetriesZeroForText(input) ==
    IF input.kind = "empty" THEN DefaultMaxRetries
    ELSE IF input.kind = "int" THEN input.value
    ELSE 0

\* the max_retries main.py puts in the state
CliMaxRetries(input) ==
    IF input.kind = "empty" THEN DefaultMaxRetries
    ELSE IF input.kind = "int" THEN input.value     \* int(max_retries_input)
    ELSE DefaultMaxRetries                           \* except ValueError

Cli(input) ==
    [kind |-> "cli", user |-> TRUE, retries |-> input, web_search_enabled |-> TRUE]

RequestFields ==
    { RetriesInput("absent", 0), RetriesInput("null", 0) }
        \cup { RetriesInput("int", n) : n \in -1..MaxRetriesBound }

\* a ChatCompletionRequest: whether a message has the role "user", and the
\* fields max_retries and web_search_enabled
Requests ==
    { [kind |-> "server", user |-> u, retries |-> f, web_search_enabled |-> w] :
        u \in BOOLEAN, f \in RequestFields, w \in BOOLEAN }

\* max_retries: Optional[int] = 3
RequestDefaultMaxRetries == 3

\* request.max_retries: the default for a missing field, None for null
RequestMaxRetries(field) ==
    IF field.kind = "absent" THEN RetriesInput("int", RequestDefaultMaxRetries)
    ELSE field

\* the positional parameters of ControlFlowState.__init__ after self, and the
\* arguments create_control_flow passes to it
ControlFlowStateParameters == 3
CreateControlFlowArguments == 4

\* create_control_flow: the graph, or the TypeError of the constructor call
create_control_flow(web_search_enabled) ==
    IF CreateControlFlowArguments = ControlFlowStateParameters THEN "graph"
    ELSE "raise"

\* the state record of main.py / server.py, as graph.invoke(state) writes it
\* to fresh channels; channel documents holds the caller's list object.
StateRecord(mr, det) ==
    /\ question = "q"
    /\ callerDocuments = <<>>
    /\ documents = MergeLastValue(<<>>, callerDocuments)
    /\ aliased = TRUE
    /\ web_search = MergeLastValue("", "No")
    /\ max_retries = mr
    /\ loop_step = MergeLoopStep(0, 0)
    /\ generation = MergeLastValue("", "")
    /\ answers = 0
    /\ routing = NoRouting
    /\ executed = <<>>
    /\ lastGrade = NoGrade
    /\ allNotGrounded = TRUE
    /\ failure = ""
    /\ lastGrading = NoGrading
    /\ lastSearch = NoSearch
    /\ history = NoHistory
    /\ deterministic = det
    /\ memo = NoMemo
    /\ run = 1
    /\ result1 = NoResult

InvokeWith(mr, det) ==
    /\ pc = "route"
    /\ StateRecord(mr, det)

Runs == 1..2

\* no calls in progress at once
NoRun == [pc |-> "none", aliased |-> FALSE, own |-> <<>>, web_search |-> "",
          loop_step |-> 0, generation |-> "", max_retries |-> 0]
NoRuns == runs = [r \in Runs |-> NoRun] /\ lists = [r \in Runs |-> <<>>]

\* no request at the event loop
NoServer == [loop |-> 0, request |-> <<>>,
             position |-> [r \in Runs |-> "none"], http |-> [r \in Runs |-> 0]]

\* main.py has asked for the question and for max_retries
StartCli ==
    \E input \in CliInputs :
        /\ InvokeWith(CliMaxRetries(input), FALSE)
        /\ caller = Cli(input)
        /\ http = 0
        /\ server = NoServer
        /\ NoRuns

\* a request has reached create_chat_completion: there is no graph yet, and
\* the state record is the one the handler builds before it asks for the
\* graph (0 stands for the None of a null max_retries, which no run reads)
StartRequest ==
    \E request \in Requests :
        /\ pc = "request"
        /\ StateRecord(IF RequestMaxRetries(request.retries).kind = "int"
                       THEN RequestMaxRetries(request.retries).value
                       ELSE 0, FALSE)
        /\ caller = request
        /\ http = 0
        /\ server = NoServer
        /\ NoRuns

Init == StartCli \/ StartRequest

\* the channels no node writes
Config == <<question, max_retries, answers, deterministic, run, result1, caller,
            runs, lists, server>>

\* what no step after routing changes
Fixed == <<Config, routing, http>>

Running == pc \notin {"END", "failed"} /\ Len(executed) < StepCap

\* a node or edge function re-executed after its exception (a variant, not
\* the code)
RaiseAndExecuteAgain(where) ==
    /\ pc' = pc
    /\ failure' = where

\* an exception leaves the node or edge function: the run ends, nothing is merged
Raise(where) ==
    /\ pc' = "failed"
    /\ failure' = where

\* the capabilities a node calls: self.llm_model, self.retriever,
\* self.web_search_tool
Capabilities == { "llm_model", "retriever", "web_search_tool" }

\* the call of a capability raises instead of returning; no node catches it
\* (a deterministic mock always returns)
CapabilityRaises(capability) ==
    /\ ~deterministic
    /\ Raise(capability)

\* ------------------------------------------------------- route_question

\* route_question falling back to the vector store (a variant, not the code)
RouteLabelFallsBackToVectorstore(reply) ==
    IF reply.kind = "invalid" THEN "raise"
    ELSE IF reply.kind = "number" THEN "raise"
    ELSE IF reply.kind \in {"array", "string"}
         THEN IF reply.value = "datasource" THEN "raise"
              ELSE "vectorstore"
    ELSE IF reply.key = "datasource"
         THEN IF reply.value = "websearch" THEN "websearch"
              ELSE "vectorstore"
    ELSE "vectorstore"

\* the label route_question returns, or "raise"
RouteLabel(reply) ==
    IF reply.kind = "invalid" THEN "raise"                \* json.loads
    ELSE IF reply.kind = "number" THEN "raise"            \* "datasource" in 5
    ELSE IF reply.kind \in {"array", "string"}
         THEN IF reply.value = "datasource" THEN "raise"  \* x["datasource"]
              ELSE "websearch"
    ELSE IF reply.key = "datasource"
         THEN IF reply.value = "websearch" THEN "websearch"
              ELSE IF reply.value = "vectorstore" THEN "vectorstore"
              ELSE "websearch"
    ELSE "websearch"

\* an entry point that starts every run at retrieve (a variant, not the code)
EntryEdgeAlwaysRetrieves(label) == "retrieve"

\* set_conditional_entry_point(route_question, {...})
EntryEdge(label) == IF label = "vectorstore" THEN "retrieve" ELSE "websearch"

RouteQuestion ==
    /\ Running /\ pc = "route"
    /\ \/ \E reply \in RouterReplies :
            /\ Allowed(memo.route, question, reply)
            /\ memo' = [memo EXCEPT !.route = Remember(@, question, reply)]
            /\ routing' = [reply |-> reply, label |-> RouteLabel(reply),
                            node |-> IF RouteLabel(reply) = "raise" THEN ""
                                     ELSE EntryEdge(RouteLabel(reply))]
            /\ IF RouteLabel(reply) = "raise"
               THEN Raise("route_question")
               ELSE pc' = EntryEdge(RouteLabel(reply)) /\ failure' = failure
       \/ /\ CapabilityRaises("llm_model")
          /\ UNCHANGED <<memo, routing>>
    /\ UNCHANGED <<Config, documents, web_search, loop_step, generation,
                   callerDocuments, aliased, executed, lastGrade, allNotGrounded,
                   lastGrading, lastSearch, history, http>>

\* --------------------------------------------------- retrieve_documents

RetrieveDocuments ==
    /\ Running /\ pc = "retrieve"
    /\ \/ /\ \E found \in RetrieverResults :
              /\ Allowed(memo.retrieve, question, found)
              /\ memo' = [memo EXCEPT !.retrieve = Remember(@, question, found)]
              /\ documents' = MergeLastValue(documents, found)
              /\ history' = [history EXCEPT !.retrieved = found]
          /\ aliased' = FALSE
          /\ executed' = Append(executed, "retrieve")
          /\ pc' = "grade_documents"     \* add_edge("retrieve", "grade_documents")
          /\ failure' = failure
       \/ /\ CapabilityRaises("retriever")
          /\ UNCHANGED <<memo, documents, aliased, executed, history>>
    /\ UNCHANGED <<Fixed, web_search, loop_step, generation, callerDocuments,
                   lastGrade, allNotGrounded, lastGrading, lastSearch>>


\* ------------------------------------------------------ grade_documents

\* the for loop of grade_documents over the documents left, replies[i] the
\* grader's reply for the i-th of them
RECURSIVE GradeLoop(_, _, _, _)
GradeLoop(docs, replies, filtered_docs, flag) ==
    IF docs = <<>>
    THEN [raised |-> FALSE, documents |-> filtered_docs, web_search |-> flag]
    ELSE IF SubscriptRaises(replies[1], "binary_score")
    THEN [raised |-> TRUE, documents |-> filtered_docs, web_search |-> flag]
    ELSE IF Lower(replies[1].value) = "yes"
    THEN GradeLoop(Tail(docs), Tail(replies), Append(filtered_docs, docs[1]), flag)
    ELSE GradeLoop(Tail(docs), Tail(replies), filtered_docs, "Yes")

\* grade_documents asking for a web search only when no document is left
\* (a variant, not the code)
grade_documents_when_none_left(docs, replies) ==
    LET out == GradeLoop(docs, replies, <<>>, "No")
    IN  [out EXCEPT !.web_search = IF out.documents = <<>> /\ docs # <<>>
                                   THEN "Yes" ELSE "No"]

grade_documents(docs, replies) == GradeLoop(docs, replies, <<>>, "No")

\* the grader is called for document i unless an earlier reply raised
Called(replies, i) ==
    \A j \in 1..(i - 1) : ~SubscriptRaises(replies[j], "binary_score")

GradeDocuments ==
    /\ Running /\ pc = "grade_documents"
    /\ \/ \E replies \in [1..Len(documents) -> GraderReplies \cup {NotCalled}] :
            LET out == grade_documents(documents, replies)
                called == { i \in 1..Len(documents) : Called(replies, i) }
            IN  /\ \A i \in 1..Len(documents) : (replies[i] = NotCalled) <=> (i \notin called)
                /\ \A i \in called : Allowed(memo.docgrade, documents[i].page_content, replies[i])
                /\ deterministic =>
                     \A i, j \in called :
                        documents[i] = documents[j] => replies[i] = replies[j]
                /\ memo' = [memo EXCEPT !.docgrade =
                              IF deterministic
                              THEN @ \cup { <<documents[i].page_content, replies[i]>> : i \in called }
                              ELSE @]
                /\ lastGrading' = [documents |-> documents, replies |-> replies, done |-> TRUE]
                /\ IF out.raised
                   THEN /\ Raise("grade_documents")
                        /\ UNCHANGED <<documents, web_search, executed, history>>
                   ELSE /\ documents' = MergeLastValue(documents, out.documents)
                        /\ history' = [history EXCEPT
                                          !.graded = TRUE,
                                          !.dropped = Cardinality(
                                              { i \in 1..Len(documents) :
                                                  Lower(replies[i].value) # "yes" })]
                        /\ web_search' = MergeLastValue(web_search, out.web_search)
                        /\ executed' = Append(executed, "grade_documents")
                        /\ pc' = "decide_to_generate"
                        /\ failure' = failure
       \* the grader is called once for each document
       \/ /\ documents # <<>>
          /\ CapabilityRaises("llm_model")
          /\ UNCHANGED <<memo, lastGrading, documents, web_search, executed, history>>
    /\ UNCHANGED <<Fixed, loop_step, generation, callerDocuments, aliased, lastGrade,
                   allNotGrounded, lastSearch>>

\* --------------------------------------------------- decide_to_generate

\* decide_to_generate never asking for a web search (a variant, not the
\* code)
decide_to_generate_never_searches(flag) == "generate"

\* decide_to_generate asking for a web search whatever the flag (a variant,
\* not the code)
decide_to_generate_always_searches(flag) == "websearch"

decide_to_generate(flag) == IF flag = "Yes" THEN "websearch" ELSE "generate"

\* the edge ending the run when no web search is asked for (a variant, not
\* the code)
GradeDocumentsEdgeEndsRun(label) == IF label = "websearch" THEN "websearch" ELSE "END"

\* the edge going to generate whatever the label (a variant, not the code)
GradeDocumentsEdgeSkipsSearch(label) == "generate"

\* add_conditional_edges("grade_documents", decide_to_generate, {...})
GradeDocumentsEdge(label) == IF label = "websearch" THEN "websearch" ELSE "generate"

\* decide_to_generate writing "No" back to web_search (a variant, not the
\* code)
DecideToGenerateClearsFlag ==
    /\ Running /\ pc = "decide_to_generate"
    /\ pc' = GradeDocumentsEdge(decide_to_generate(web_search))
    /\ web_search' = "No"
    /\ lastGrading' = NoGrading
    /\ UNCHANGED <<Fixed, documents, loop_step, generation,
                   callerDocuments, aliased, executed, lastGrade,
                   allNotGrounded, failure, memo, history, lastSearch>>

DecideToGenerate ==
    /\ Running /\ pc = "decide_to_generate"
    /\ pc' = GradeDocumentsEdge(decide_to_generate(web_search))
    /\ lastGrading' = NoGrading
    /\ UNCHANGED <<Fixed, documents, web_search, loop_step, generation,
                   callerDocuments, aliased, executed, lastGrade,
                   allNotGrounded, failure, memo, history, lastSearch>>

\* ----------------------------------------------------------- web_search

\* web_search returning the web results alone (a variant, not the code)
WebSearchReplace(docs, results) == <<WebResultsDocument(results)>>

\* web_search returning the list it was given (a variant, not the code)
WebSearchKeepsDocuments(docs, results) == docs

\* web_search putting the web results in front (a variant, not the code)
WebSearchPrepend(docs, results) == <<WebResultsDocument(results)>> \o docs

\* documents.append(web_results): the list the node was given, one longer
WebSearchAppend(docs, results) == Append(docs, WebResultsDocument(results))

WebSearch ==
    /\ Running /\ pc = "websearch"
    /\ \/ /\ \E results \in SearchResults :
              /\ Allowed(memo.search, question, results)
              /\ memo' = [memo EXCEPT !.search = Remember(@, question, results)]
              /\ documents' = MergeLastValue(documents, WebSearchAppend(documents, results))
              /\ lastSearch' = [results |-> results, done |-> TRUE]
              \* the append is in place: it changes the caller's list when the
              \* channel still holds that list
              /\ callerDocuments' = IF aliased
                                    THEN WebSearchAppend(callerDocuments, results)
                                    ELSE callerDocuments
          /\ executed' = Append(executed, "websearch")
          /\ pc' = "generate"            \* add_edge("websearch", "generate")
          /\ failure' = failure
       \* the tool is called before anything is appended
       \/ /\ CapabilityRaises("web_search_tool")
          /\ UNCHANGED <<memo, documents, callerDocuments, executed, lastSearch>>
    /\ UNCHANGED <<Fixed, web_search, loop_step, generation, aliased, lastGrade,
                   allNotGrounded, lastGrading, history>>

\* ------------------------------------------------------ generate_answer

\* the value generate_answer returns under the key loop_step
GenerateLoopStep(current) == current + 1

GenerateAnswer ==
    /\ Running /\ pc = "generate"
    /\ \/ /\ \E text \in GenerationTexts :
              /\ Allowed(memo.gen, format_docs(documents), text)
              /\ memo' = [memo EXCEPT !.gen = Remember(@, format_docs(documents), text)]
              /\ generation' = MergeLastValue(generation, text)
              /\ history' = [history EXCEPT !.output = text]
          /\ loop_step' = MergeLoopStep(loop_step, GenerateLoopStep(loop_step))
          /\ executed' = Append(executed, "generate")
          /\ pc' = "grade_generation"
          /\ failure' = failure
       \/ /\ CapabilityRaises("llm_model")
          /\ UNCHANGED <<memo, generation, loop_step, executed, history>>
    /\ lastSearch' = NoSearch
    /\ UNCHANGED <<Fixed, documents, web_search, callerDocuments, aliased,
                   lastGrade, allNotGrounded, lastGrading>>

\* ------------------------- grade_generation_v_documents_and_question

\* the edge function comparing with < (a variant, not the code)
GradeGenerationLabelExclusive(hallucination, answer, step, retries) ==
    IF SubscriptRaises(hallucination, "binary_score") THEN "raise"
    ELSE IF hallucination.value = "yes"
    THEN IF SubscriptRaises(answer, "binary_score") THEN "raise"
         ELSE IF answer.value = "yes" THEN "useful"
         ELSE IF step < retries THEN "not useful"
         ELSE "max retries"
    ELSE IF step < retries THEN "not supported"
    ELSE "max retries"

\* the edge function retrying an ungrounded generation without a ceiling
\* (a variant, not the code)
GradeGenerationLabelNoCeiling(hallucination, answer, step, retries) ==
    IF SubscriptRaises(hallucination, "binary_score") THEN "raise"
    ELSE IF hallucination.value = "yes"
    THEN IF SubscriptRaises(answer, "binary_score") THEN "raise"
         ELSE IF answer.value = "yes" THEN "useful"
         ELSE IF step <= retries THEN "not useful"
         ELSE "max retries"
    ELSE "not supported"

\* the edge function taking a reply it cannot read for the grade "no"
\* (a variant, not the code)
GradeGenerationLabelDefaultsNo(hallucination, answer, step, retries) ==
    IF ~SubscriptRaises(hallucination, "binary_score") /\ hallucination.value = "yes"
    THEN IF ~SubscriptRaises(answer, "binary_score") /\ answer.value = "yes"
         THEN "useful"
         ELSE IF step <= retries THEN "not useful"
         ELSE "max retries"
    ELSE IF step <= retries THEN "not supported"
    ELSE "max retries"

\* the label the edge function returns, or "raise"; answer is the reply of
\* the answer grader, which is called only for a grounded generation
GradeGenerationLabel(hallucination, answer, step, retries) ==
    IF SubscriptRaises(hallucination, "binary_score") THEN "raise"
    ELSE IF hallucination.value = "yes"
    THEN IF SubscriptRaises(answer, "binary_score") THEN "raise"
         ELSE IF answer.value = "yes" THEN "useful"
         ELSE IF step <= retries THEN "not useful"
         ELSE "max retries"
    ELSE IF step <= retries THEN "not supported"
    ELSE "max retries"

\* the answer grader called whatever the groundedness grade (a variant, not
\* the code)
AnswerGraderAlwaysCalled(hallucination) == TRUE

AnswerGraderCalled(hallucination) ==
    ~SubscriptRaises(hallucination, "binary_score") /\ hallucination.value = "yes"

\* the edges of generate with "not useful" going back to retrieve (a
\* variant, not the code)
GenerateEdgeRetrievesAgain(label) ==
    CASE label = "not supported" -> "generate"
      [] label = "useful" -> "END"
      [] label = "not useful" -> "retrieve"
      [] label = "max retries" -> "END"

\* add_conditional_edges("generate", grade_generation_v_documents_and_question, {...})
GenerateEdge(label) ==
    CASE label = "not supported" -> "generate"
      [] label = "useful" -> "END"
      [] label = "not useful" -> "websearch"
      [] label = "max retries" -> "END"

GradeGeneration ==
    /\ Running /\ pc = "grade_generation"
    /\ \/ \E hallucination \in GraderReplies, answer \in GraderReplies \cup {NotCalled} :
            LET label == GradeGenerationLabel(hallucination, answer, loop_step, max_retries)
                facts == <<format_docs(documents), generation>>
            IN  /\ (answer = NotCalled) <=> ~AnswerGraderCalled(hallucination)
                /\ Allowed(memo.hall, facts, hallucination)
                /\ answer # NotCalled => Allowed(memo.ans, generation, answer)
                /\ memo' = [memo EXCEPT
                              !.hall = Remember(@, facts, hallucination),
                              !.ans = IF answer # NotCalled
                                      THEN Remember(@, generation, answer) ELSE @]
                /\ lastGrade' = [grounded |-> hallucination, useful |-> answer,
                                  loop_step |-> loop_step, label |-> label]
                /\ allNotGrounded' = (allNotGrounded /\ hallucination = Obj("binary_score", "no"))
                /\ IF label = "raise"
                   THEN Raise("grade_generation")
                   ELSE pc' = GenerateEdge(label) /\ failure' = failure
       \/ /\ CapabilityRaises("llm_model")
          /\ UNCHANGED <<memo, lastGrade, allNotGrounded>>
    /\ UNCHANGED <<Fixed, documents, web_search, loop_step, generation,
                   callerDocuments, aliased, executed, lastGrading, lastSearch,
                   history>>

\* ------------------------------------------------ create_chat_completion

\* The handler up to the call of create_control_flow.  Every exception in it,
\* the HTTPException(400) for a request without user message too, is caught
\* by "except Exception" and answered with status 500.
CreateChatCompletion ==
    /\ pc = "request"
    /\ IF ~caller.user
       THEN Raise("create_chat_completion") /\ http' = 500
       ELSE IF create_control_flow(caller.web_search_enabled) = "raise"
       THEN Raise("create_control_flow") /\ http' = 500
       ELSE /\ RequestMaxRetries(caller.retries).kind = "int"
            /\ pc' = "route"                \* graph.invoke(state)
            /\ UNCHANGED <<failure, http>>
    /\ UNCHANGED <<Config, documents, web_search, loop_step, generation,
                   callerDocuments, aliased, routing, executed, lastGrade,
                   allNotGrounded, lastGrading, lastSearch, history, memo>>

\* ------------------------------------------------------------ the graph

\* the nodes and edge functions of the graph
Engine ==
    \/ RouteQuestion
    \/ RetrieveDocuments
    \/ GradeDocuments
    \/ DecideToGenerate
    \/ WebSearch
    \/ GenerateAnswer
    \/ GradeGeneration

Next == Engine \/ CreateChatCompletion

Spec == Init /\ [][Next]_vars

\* every node call returns and the engine then takes the next step
FairSpec == Spec /\ WF_vars(Next)

StepCapNotReached == Len(executed) < StepCap


\* ------------------------------------------- a second call of graph.invoke

\* what graph.invoke returned (or that it raised), as the caller sees it
\* then; with it, as history, the label of the edge function that ended the
\* run, which is in no channel
Returned ==
    [returned |-> TRUE, failed |-> (pc = "failed"), generation |-> generation,
     loop_step |-> loop_step, web_search |-> web_search, documents |-> documents,
     label |-> lastGrade.label]

\* graph.invoke(state) again, with the state record of the call before: new
\* channels, written from the same record, whose documents is still the list
\* object callerDocuments
InvokeAgain ==
    /\ pc \in {"END", "failed"}
    /\ run < MaxRuns
    /\ run' = run + 1
    /\ result1' = IF run = 1 THEN Returned ELSE result1
    /\ pc' = "route"
    /\ documents' = MergeLastValue(<<>>, callerDocuments)
    /\ aliased' = TRUE
    /\ web_search' = MergeLastValue("", "No")
    /\ loop_step' = MergeLoopStep(0, 0)
    /\ generation' = MergeLastValue("", "")
    /\ routing' = NoRouting
    /\ executed' = <<>>
    /\ lastGrade' = NoGrade
    /\ allNotGrounded' = TRUE
    /\ failure' = ""
    /\ lastGrading' = NoGrading
    /\ lastSearch' = NoSearch
    /\ history' = NoHistory
    /\ UNCHANGED <<question, max_retries, answers, deterministic, memo,
                   callerDocuments, caller, http, runs, lists, server>>

InitTwice ==
    \E mr \in -1..MaxRetriesTwice :
        /\ InvokeWith(mr, TRUE)
        /\ caller = Cli(RetriesInput("int", mr))
        /\ http = 0
        /\ server = NoServer
        /\ NoRuns

NextTwice == Engine \/ InvokeAgain

\* two calls with the same state record and deterministic mocks
SpecTwice == InitTwice /\ [][NextTwice]_vars

InitAgain ==
    \E mr \in -1..MaxRetriesAgain :
        /\ InvokeWith(mr, FALSE)
        /\ caller = Cli(RetriesInput("int", mr))
        /\ http = 0
        /\ server = NoServer
        /\ NoRuns

\* two calls with the same state record, the capabilities free to answer
\* the second call differently
SpecAgain == InitAgain /\ [][NextTwice]_vars


\* ------------------------------- one call with deterministic mocks

InitDeterministic ==
    \E mr \in -1..MaxRetriesDeterministic :
        /\ InvokeWith(mr, TRUE)
        /\ caller = Cli(RetriesInput("int", mr))
        /\ http = 0
        /\ server = NoServer
        /\ NoRuns

\* one call of graph.invoke, every capability answering a repeated call as
\* it answered it before
SpecDeterministic == InitDeterministic /\ [][Engine]_vars

\* --------------------------------- two calls of graph.invoke at once

\* every state record built around one module-level list (a variant, not
\* the code)
ListOfShared(r) == 1

\* every state record is built with its own list: "documents": []
\* (main.py:59, server.py:114)
ListOf(r) == r

\* run r's channel documents: the caller's list object while no node has
\* replaced it, the run's own list afterwards
DocumentsOf(r) == IF runs[r].aliased THEN lists[ListOf(r)] ELSE runs[r].own

\* run r moves to node, or fails
Goes(r, node) == runs' = [runs EXCEPT ![r].pc = node]

RunRouteQuestion(r) ==
    /\ runs[r].pc = "route"
    /\ \/ \E reply \in RouterReplies :
            Goes(r, IF RouteLabel(reply) = "raise" THEN "failed"
                    ELSE EntryEdge(RouteLabel(reply)))
       \/ Goes(r, "failed")
    /\ UNCHANGED lists

RunRetrieveDocuments(r) ==
    /\ runs[r].pc = "retrieve"
    /\ \/ \E found \in SeqsUpTo(StoredDocuments, MaxDocsConcurrent) :
            runs' = [runs EXCEPT ![r].pc = "grade_documents",
                                 ![r].own = MergeLastValue(DocumentsOf(r), found),
                                 ![r].aliased = FALSE]
       \/ Goes(r, "failed")
    /\ UNCHANGED lists

RunGradeDocuments(r) ==
    /\ runs[r].pc = "grade_documents"
    /\ \/ \E replies \in [1..Len(DocumentsOf(r)) -> GraderReplies] :
            LET out == grade_documents(DocumentsOf(r), replies)
            IN  IF out.raised
                THEN Goes(r, "failed")
                ELSE runs' = [runs EXCEPT
                        ![r].pc = "decide_to_generate",
                        ![r].own = MergeLastValue(DocumentsOf(r), out.documents),
                        ![r].aliased = FALSE,
                        ![r].web_search = MergeLastValue(@, out.web_search)]
       \/ DocumentsOf(r) # <<>> /\ Goes(r, "failed")
    /\ UNCHANGED lists

RunDecideToGenerate(r) ==
    /\ runs[r].pc = "decide_to_generate"
    /\ Goes(r, GradeDocumentsEdge(decide_to_generate(runs[r].web_search)))
    /\ UNCHANGED lists

\* documents.append: on the list object the channel holds
RunWebSearch(r) ==
    /\ runs[r].pc = "websearch"
    /\ \/ \E results \in SearchResults :
            IF runs[r].aliased
            THEN /\ lists' = [lists EXCEPT ![ListOf(r)] = WebSearchAppend(@, results)]
                 /\ Goes(r, "generate")
            ELSE /\ runs' = [runs EXCEPT ![r].pc = "generate",
                                         ![r].own = WebSearchAppend(@, results)]
                 /\ UNCHANGED lists
       \/ Goes(r, "failed") /\ UNCHANGED lists

RunGenerateAnswer(r) ==
    /\ runs[r].pc = "generate"
    /\ \/ \E text \in GenerationTexts :
            runs' = [runs EXCEPT
                ![r].pc = "grade_generation",
                ![r].generation = MergeLastValue(@, text),
                ![r].loop_step = MergeLoopStep(@, GenerateLoopStep(@))]
       \/ Goes(r, "failed")
    /\ UNCHANGED lists

RunGradeGeneration(r) ==
    /\ runs[r].pc = "grade_generation"
    /\ \/ \E hallucination \in GraderReplies, answer \in GraderReplies \cup {NotCalled} :
            LET label == GradeGenerationLabel(hallucination, answer,
                                              runs[r].loop_step, runs[r].max_retries)
            IN  /\ (answer = NotCalled) <=> ~AnswerGraderCalled(hallucination)
                /\ Goes(r, IF label = "raise" THEN "failed" ELSE GenerateEdge(label))
       \/ Goes(r, "failed")
    /\ UNCHANGED lists

\* the variables of the one run of Spec, which is not there
OneRun == <<pc, question, documents, web_search, max_retries, loop_step,
            generation, answers, callerDocuments, aliased, routing, executed,
            lastGrade, allNotGrounded, failure, lastGrading, lastSearch, history,
            deterministic, memo, run, result1, caller, http>>

RunStep(r) ==
    /\ \/ RunRouteQuestion(r)
       \/ RunRetrieveDocuments(r)
       \/ RunGradeDocuments(r)
       \/ RunDecideToGenerate(r)
       \/ RunWebSearch(r)
       \/ RunGenerateAnswer(r)
       \/ RunGradeGeneration(r)
    /\ UNCHANGED <<OneRun, server>>

\* two state records built apart, as the two front ends build them, and
\* graph.invoke called on each
InitConcurrent ==
    /\ pc = "concurrent"
    /\ StateRecord(0, FALSE)
    /\ caller = Cli(RetriesInput("int", 0))
    /\ http = 0
    /\ server = NoServer
    /\ lists = [l \in Runs |-> <<>>]
    /\ \E mr \in { m \in [Runs -> 0..MaxRetriesConcurrent] :
                         m[1] + m[2] <= MaxRetriesConcurrent } :
          runs = [r \in Runs |->
                    [pc |-> "route", aliased |-> TRUE, own |-> <<>>,
                     web_search |-> MergeLastValue("", "No"),
                     loop_step |-> MergeLoopStep(0, 0),
                     generation |-> MergeLastValue("", ""),
                     max_retries |-> mr[r]]]

NextConcurrent == \E r \in Runs : RunStep(r)

\* the nodes of the two calls in any order
SpecConcurrent == InitConcurrent /\ [][NextConcurrent]_vars

\* ------------------------------------ two requests at the event loop

\* uvicorn.run("server:app"): one process with one event loop, to which two
\* requests for /v1/chat/completions have come
InitServer ==
    /\ pc = "server"
    /\ StateRecord(0, FALSE)
    /\ caller = [kind |-> "event loop"]
    /\ http = 0
    /\ NoRuns
    /\ \E request \in [Runs -> Requests] :
          server = [loop |-> 0, request |-> request,
                    position |-> [r \in Runs |-> "pending"],
                    http |-> [r \in Runs |-> 0]]

\* the event loop starts the coroutine of "async def create_chat_completion"
\* for a request; it does so only when no coroutine is running
AcceptRequest(r) ==
    /\ pc = "server"
    /\ server.loop = 0
    /\ server.position[r] = "pending"
    /\ server' = [server EXCEPT !.loop = r, !.position[r] = "handler"]
    /\ UNCHANGED <<OneRun, runs, lists>>

\* the body of create_chat_completion: it has no await, so that it runs to
\* its end (graph.invoke(state) included) before the event loop gets control
\* again.  Every exception is answered with status 500.
HandleRequest(r) ==
    /\ pc = "server"
    /\ server.loop = r
    /\ server.position[r] = "handler"
    /\ IF ~server.request[r].user
       THEN server' = [server EXCEPT !.loop = 0, !.position[r] = "responded",
                                     !.http[r] = 500]
       ELSE IF create_control_flow(server.request[r].web_search_enabled) = "raise"
       THEN server' = [server EXCEPT !.loop = 0, !.position[r] = "responded",
                                     !.http[r] = 500]
       ELSE server' = [server EXCEPT !.position[r] = "invoke"]   \* graph.invoke(state)
    /\ UNCHANGED <<OneRun, runs, lists>>

NextServer == \E r \in Runs : AcceptRequest(r) \/ HandleRequest(r)

SpecServer == InitServer /\ [][NextServer]_vars

\* ----------------------------------------------------------- properties

RECURSIVE Count(_, _)
Count(node, nodes) ==
    IF nodes = <<>> THEN 0
    ELSE (IF nodes[1] = node THEN 1 ELSE 0) + Count(node, Tail(nodes))

GenerateCount == Count("generate", executed)
WebSearchCount == Count("websearch", executed)

Yes == Obj("binary_score", "yes")
No == Obj("binary_score", "no")

\* C1: in every state of a run, so in the final one too, loop_step is the
\* number of times Generate has executed in that run (each execution adds
\* exactly 1 and nothing else changes it).
C1_LoopStepCountsGenerate == loop_step = GenerateCount

\* C2: with max_retries >= 0, loop_step never exceeds max_retries + 1 and
\* Generate executes at most max_retries + 1 times.
C2_LoopStepBounded ==
    max_retries >= 0 =>
        /\ loop_step <= max_retries + 1
        /\ GenerateCount <= max_retries + 1

\* C3: with max_retries >= 0 and every groundedness grade "no", loop_step
\* is 1, 2, ... after the successive executions of Generate, and the run
\* ends, exhausted, after exactly max_retries + 1 of them.
C3_ExhaustedAfterAllAttempts ==
    (max_retries >= 0 /\ allNotGrounded) =>
        /\ loop_step = GenerateCount
        /\ pc = "END" => /\ GenerateCount = max_retries + 1
                         /\ loop_step = max_retries + 1
                         /\ lastGrade.label = "max retries"

\* the successor of Generate by the transition table, for grades "yes"/"no"
TableSuccessor(grounded, useful, step, retries) ==
    IF grounded = No
    THEN IF step <= retries THEN "generate" ELSE "END"
    ELSE IF useful = Yes THEN "END"
    ELSE IF step <= retries THEN "websearch" ELSE "END"

\* C4: the node after Generate is the one the transition table gives for
\* (groundedness, usefulness, loop_step, max_retries), and is never any
\* node other than Generate, WebSearch or the end.
C4_SuccessorOfGenerate ==
    [][(pc = "grade_generation" /\ pc' # "failed") =>
          /\ pc' \in {"generate", "websearch", "END"}
          /\ (lastGrade'.grounded = No
              \/ (lastGrade'.grounded = Yes /\ lastGrade'.useful \in {Yes, No}))
                => pc' = TableSuccessor(lastGrade'.grounded, lastGrade'.useful,
                                        loop_step, max_retries)]_vars

C4_Witness ==
    /\ pc = "websearch"
    /\ lastGrade.grounded = Yes /\ lastGrade.useful = No
    /\ lastGrade.loop_step <= max_retries

\* C5 as amended: every run ends, at the end node or with the exception of
\* a reply that could not be read, after finitely many steps.
C5_EveryRunEnds == <>(pc \in {"END", "failed"})

C5_Witness == pc = "END" /\ GenerateCount >= 2 /\ WebSearchCount >= 2

\* C5 as stated: every run reaches the end node, so a run that has not
\* reached it can take another step (a run the router itself ended is left
\* to C7, and so is one in which a capability call did not return; a
\* request for which the server built no graph has no run).
C5_EveryRunReachesDone ==
    \/ caller.kind = "server"
    \/ failure = "route_question"
    \/ failure \in Capabilities
    \/ pc = "END"
    \/ ENABLED Next

\* a router reply that is a mapping without a recognised datasource
Unrecognised(reply) ==
    /\ reply.kind = "object"
    /\ \/ reply.key # "datasource"
       \/ reply.value \notin {"websearch", "vectorstore"}

\* the first node of the run, once the router has answered without raising
FirstNode == routing.node

\* C6: a router reply without a datasource key, or with a value that is
\* neither label, routes to websearch; the first node is Retrieve only for
\* the value "vectorstore".
C6_RouterDefaultsToWebSearch ==
    (routing.label \notin {"", "raise"}) =>
        /\ Unrecognised(routing.reply) =>
              routing.label = "websearch" /\ FirstNode = "websearch"
        /\ FirstNode = "retrieve" <=> routing.reply = Obj("datasource", "vectorstore")
        /\ FirstNode \in {"retrieve", "websearch"}

C6_Witness ==
    /\ routing.reply = Obj("none", "vectorstore")
    /\ executed # <<>> /\ executed[1] = "websearch"

\* C7: no router reply makes the run fail.
C7_RouterNeverRaises == failure # "route_question"

\* the grade_documents grader's verdict on a reply: relevant or not
Relevant(reply) == reply.value \in {"yes", "Yes"}

\* the documents of docs whose reply is relevant, in order
RECURSIVE Kept(_, _, _)
Kept(docs, replies, n) ==
    IF n = 0 THEN <<>>
    ELSE IF Relevant(replies[n]) THEN Append(Kept(docs, replies, n - 1), docs[n])
    ELSE Kept(docs, replies, n - 1)

\* C8: GradeDocuments leaves exactly the documents graded "yes", in their
\* order, and sets web_search to "Yes" iff some document was graded "no"
\* (that is, was not graded "yes"); "No" for no documents at all.
C8_GradeDocumentsFilters ==
    (pc = "decide_to_generate") =>
        LET given == lastGrading.documents
            replies == lastGrading.replies
        IN  /\ lastGrading.done
            /\ documents = Kept(given, replies, Len(given))
            /\ web_search \in {"Yes", "No"}
            /\ web_search = "Yes" <=> \E i \in 1..Len(given) : ~Relevant(replies[i])
            /\ given = <<>> => web_search = "No"

C8_Witness ==
    /\ pc = "decide_to_generate"
    /\ Len(lastGrading.documents) = 2
    /\ lastGrading.replies[1] = No /\ lastGrading.replies[2] = Yes
    /\ Len(documents) = 1

\* C9: every execution of WebSearch makes documents one entry longer and
\* keeps the entries it had, in order, in front of the new one.
C9_WebSearchAppends ==
    [][(pc = "websearch" /\ pc' \notin {"websearch", "failed"}) =>
          /\ pc' = "generate"
          /\ Len(documents') = Len(documents) + 1
          /\ SubSeq(documents', 1, Len(documents)) = documents]_vars

C9_Witness ==
    /\ WebSearchCount = 2
    /\ Len(documents) >= 2
    /\ documents[Len(documents)] = documents[Len(documents) - 1]

\* C10: a second run from the same initial state with the same deterministic
\* mocks ends in the state the first run ended in.
C10_SecondRunSameResult ==
    (run = 2 /\ pc = "END" /\ ~result1.failed) =>
        /\ result1.generation = generation
        /\ result1.loop_step = loop_step
        /\ result1.web_search = web_search
        /\ result1.documents = documents

\* a reply of a generation grader that is not JSON or lacks binary_score
Unreadable(reply) == reply # NotCalled /\ SubscriptRaises(reply, "binary_score")

\* C12: a groundedness or usefulness reply that is not valid JSON or lacks
\* binary_score ends the run as a failure of the edge function: no grade is
\* put in its place and no node executes afterwards.
C12_UnreadableGradeIsFatal ==
    (Unreadable(lastGrade.grounded) \/ Unreadable(lastGrade.useful)) =>
        /\ pc = "failed"
        /\ failure = "grade_generation"
        /\ ~ENABLED Next

C12_Witness ==
    /\ pc = "failed"
    /\ lastGrade.grounded = Yes
    /\ lastGrade.useful = Obj("other", "yes")

\* C18: a capability call that raises ends the run as a failure: the node
\* is not executed again, no node executes afterwards, and nothing of the
\* failed node is merged, so the retry loop is never entered because of it.
C18_CapabilityFailureEndsRun ==
    /\ [](failure \in Capabilities => (pc = "failed" /\ ~ENABLED Next))
    /\ [][failure' \in Capabilities =>
            /\ pc' = "failed"
            /\ executed' = executed
            /\ loop_step' = loop_step
            /\ documents' = documents]_vars

C18_Witness ==
    /\ pc = "failed"
    /\ failure = "web_search_tool"
    /\ GenerateCount >= 1

\* C20: the usefulness grader is called only for a generation the
\* groundedness grader has just graded "yes"; a generation graded anything
\* else is never usefulness-graded.
C20_UsefulnessOnlyAfterGrounded ==
    /\ lastGrade.useful # NotCalled => lastGrade.grounded = Yes
    /\ (lastGrade.grounded # NotCalled /\ lastGrade.grounded # Yes) =>
           lastGrade.useful = NotCalled

C20_Witness ==
    /\ lastGrade.grounded = Yes
    /\ lastGrade.useful = No
    /\ lastGrade.label = "max retries"

\* C13: when the run is at the end node, Generate has executed at least
\* once and generation is the text its last execution got; the end node is
\* entered only from the edge function that follows Generate, never from
\* the entry point, Retrieve, GradeDocuments or WebSearch.
C13_DoneOnlyAfterGenerate ==
    /\ [](pc = "END" =>
            /\ GenerateCount >= 1
            /\ executed[Len(executed)] = "generate"
            /\ generation \in GenerationTexts
            /\ generation = history.output)
    /\ [][(pc' = "END" /\ pc # "END") => pc = "grade_generation"]_vars

C13_Witness ==
    /\ pc = "END"
    /\ GenerateCount = 2
    /\ generation = "g2" /\ history.output = "g2"

\* C14: routed to the vector store, with every retrieved document graded
\* "yes" and the first generation graded grounded and useful, the run has
\* executed exactly Retrieve, GradeDocuments, Generate, in that order, and
\* is over with loop_step = 1, web_search = "No" and the retrieved
\* documents as documents.
C14_VectorstoreHappyPath ==
    (/\ routing.label = "vectorstore"
     /\ history.graded /\ history.dropped = 0
     /\ GenerateCount = 1
     /\ lastGrade.grounded = Yes /\ lastGrade.useful = Yes) =>
        /\ pc = "END" /\ ~ENABLED Next
        /\ executed = <<"retrieve", "grade_documents", "generate">>
        /\ loop_step = 1
        /\ web_search = "No"
        /\ documents = history.retrieved

C14_Witness ==
    /\ pc = "END"
    /\ executed = <<"retrieve", "grade_documents", "generate">>
    /\ Len(history.retrieved) = 2 /\ documents = history.retrieved
    /\ lastGrade.useful = Yes

\* C15: when retrieval gave n documents and k >= 1 of them were graded
\* "no", web_search is "Yes" from GradeDocuments on, documents has n - k
\* entries after GradeDocuments, and WebSearch executes exactly once before
\* the first Generate.
C15_DroppedDocumentForcesSearch ==
    (history.graded /\ history.dropped >= 1) =>
        /\ web_search = "Yes"
        /\ WebSearchCount = 0 =>
              /\ Len(documents) = Len(history.retrieved) - history.dropped
              /\ pc \in {"decide_to_generate", "websearch", "failed"}
        /\ (pc = "generate" /\ GenerateCount = 0) => WebSearchCount = 1
        /\ GenerateCount >= 1 =>
              SubSeq(executed, 1, 4) =
                  <<"retrieve", "grade_documents", "websearch", "generate">>

C15_Witness ==
    /\ GenerateCount = 1
    /\ Len(history.retrieved) = 2 /\ history.dropped = 1
    /\ executed[3] = "websearch"
    /\ Len(documents) = 2

\* C16: when the router resolves to websearch and documents starts empty,
\* Retrieve and GradeDocuments never execute, web_search keeps its initial
\* value, and when Generate first executes documents holds exactly one
\* document, the one made of the web results.
C16_WebSearchRouteSkipsRetrieval ==
    (routing.label = "websearch") =>
        /\ Count("retrieve", executed) = 0
        /\ Count("grade_documents", executed) = 0
        /\ ~history.graded
        /\ web_search = "No"
        /\ (pc = "generate" /\ GenerateCount = 0) =>
              /\ executed = <<"websearch">>
              /\ Len(documents) = 1
              /\ documents[1] \in { WebResultsDocument(r) : r \in SearchResults }
        /\ GenerateCount >= 1 => SubSeq(executed, 1, 2) = <<"websearch", "generate">>

C16_Witness ==
    /\ routing.reply = Obj("datasource", "banana")
    /\ pc = "grade_generation" /\ GenerateCount = 1
    /\ Len(documents) = 1

\* the channels as graph.invoke returns them; question, max_retries and
\* answers are written by no node and are the same in both calls
FinalState ==
    [generation |-> generation, loop_step |-> loop_step,
     web_search |-> web_search, documents |-> documents]

FinalStateOf(result) ==
    [generation |-> result.generation, loop_step |-> result.loop_step,
     web_search |-> result.web_search, documents |-> result.documents]

\* C11: a final state reached by exhaustion ("max retries") differs, in
\* some field of the final state, from a final state reached with a
\* grounded and useful generation.
C11_ExhaustedDistinguishable ==
    (/\ run = 2 /\ pc = "END"
     /\ result1.returned /\ ~result1.failed
     /\ result1.label = "max retries"
     /\ lastGrade.label = "useful") =>
        FinalStateOf(result1) # FinalState

Visible(r) ==
    [documents |-> DocumentsOf(r), loop_step |-> runs[r].loop_step,
     web_search |-> runs[r].web_search, generation |-> runs[r].generation]

\* C17: with two runs started from state records built apart, whatever the
\* order of their node executions, a step that is not a step of run r
\* leaves documents, loop_step, web_search and generation of run r as they
\* were; what WebSearch appends for one run does not reach the other.
C17_RunsShareNoState ==
    [][\A r \in Runs : runs'[r].pc = runs[r].pc => Visible(r)' = Visible(r)]_vars

C17_Witness ==
    /\ runs[1].pc = "grade_generation" /\ runs[2].pc = "generate"
    /\ runs[1].aliased /\ runs[2].aliased
    /\ Len(DocumentsOf(1)) = 1 /\ Len(DocumentsOf(2)) = 1
    /\ DocumentsOf(1) # DocumentsOf(2)

\* C21: in every step of a run question, max_retries and answers keep
\* their values, and web_search changes only in a step of GradeDocuments.
C21_FrameOfChannels ==
    [][/\ question' = question
       /\ max_retries' = max_retries
       /\ answers' = answers
       /\ web_search' # web_search => pc = "grade_documents"]_vars

C21_Witness ==
    /\ web_search = "Yes"
    /\ WebSearchCount >= 2 /\ GenerateCount >= 2
    /\ pc = "END"

IsPrefix(s, t) == Len(s) <= Len(t) /\ SubSeq(t, 1, Len(s)) = s

\* s is t with some entries left out
RECURSIVE IsSubsequence(_, _)
IsSubsequence(s, t) ==
    IF s = <<>> THEN TRUE
    ELSE IF t = <<>> THEN FALSE
    ELSE IF s[1] = t[1] THEN IsSubsequence(Tail(s), Tail(t))
    ELSE IsSubsequence(s, Tail(t))

\* C22: in a run started with empty documents every step leaves documents
\* unchanged, or extends it (Retrieve, WebSearch: the old value is a prefix
\* of the new one), or, at GradeDocuments only, replaces it by a
\* subsequence of the old value; Generate and the decisions leave it
\* unchanged.
C22_DocumentsGrowOrFilter ==
    [][\/ documents' = documents
       \/ pc \in {"retrieve", "websearch"} /\ IsPrefix(documents, documents')
       \/ pc = "grade_documents" /\ IsSubsequence(documents', documents)]_vars

C22_Witness ==
    /\ pc = "generate"
    /\ Len(history.retrieved) = 2 /\ history.dropped = 1
    /\ Len(documents) = 2
    /\ documents[1] \in StoredDocuments /\ documents[2] \notin StoredDocuments

\* C23: no node changes what it was given: the documents list of the
\* caller's state record has after every step the contents it had before.
C23_NodesLeaveInputAlone ==
    [][callerDocuments' = callerDocuments]_vars

\* the content fields of the first n results that have one, in their
\* order, with a newline between two of them
RECURSIVE JoinedContents(_, _)
JoinedContents(results, n) ==
    IF n = 0 THEN <<>>
    ELSE IF ~results[n].has_content THEN JoinedContents(results, n - 1)
    ELSE IF \A i \in 1..(n - 1) : ~results[i].has_content
         THEN <<results[n].content>>
         ELSE JoinedContents(results, n - 1) \o <<"\n", results[n].content>>

\* C24: the document WebSearch appends has as content the content fields
\* of the results that have one, in result order, joined by newlines;
\* results without a content field are left out and raise nothing.
C24_SyntheticDocumentContent ==
    lastSearch.done =>
        /\ pc = "generate"
        /\ documents[Len(documents)].page_content =
              JoinedContents(lastSearch.results, Len(lastSearch.results))

C24_Witness ==
    /\ lastSearch.results = <<W1, NoContent, W2>>
    /\ documents[Len(documents)].page_content = <<"w1", "\n", "w2">>
    /\ Len(documents) = 2

\* C25: every execution of Retrieve is followed at once by GradeDocuments
\* and every execution of WebSearch by Generate; Retrieve and
\* GradeDocuments execute at most once, as the first and the second node of
\* a run routed to the vector store.
C25_UnconditionalEdges ==
    /\ \A i \in 1..Len(executed) :
          /\ executed[i] = "retrieve" =>
                /\ i = 1 /\ routing.label = "vectorstore"
                /\ (i < Len(executed) => executed[i + 1] = "grade_documents")
          /\ executed[i] = "grade_documents" =>
                i = 2 /\ executed[1] = "retrieve"
          /\ executed[i] = "websearch" =>
                (i < Len(executed) => executed[i + 1] = "generate")
    /\ (executed # <<>> /\ executed[Len(executed)] = "retrieve") =>
          pc \in {"grade_documents", "failed"}
    /\ (executed # <<>> /\ executed[Len(executed)] = "websearch") =>
          pc \in {"generate", "failed"}

C25_Witness ==
    /\ pc = "END"
    /\ Len(executed) >= 6
    /\ SubSeq(executed, 1, 6) =
          <<"retrieve", "grade_documents", "websearch", "generate",
            "websearch", "generate">>

\* C28: a request without a message of role "user" is answered with status
\* 400 and starts no run.
C28_NoUserMessageIs400 ==
    (caller.kind = "server" /\ ~caller.user /\ pc # "request") =>
        /\ http = 400
        /\ executed = <<>>

\* C29: for a request with a user message, whatever its web_search_enabled,
\* building the workflow does not fail and the run starts from the fresh
\* state.
C29_WorkflowIsBuilt ==
    (caller.kind = "server" /\ caller.user /\ pc # "request") =>
        /\ failure # "create_control_flow"
        /\ http # 500

\* the spellings of "yes" the document grader accepts
AnyCaseYes == {"yes", "Yes", "YES"}

C27_SecondRequestProgresses ==
    \A r \in Runs : \A q \in Runs \ {r} :
        (server.position[r] = "handler" /\ server.position[q] = "pending") =>
            ENABLED AcceptRequest(q)

\* C31: when a run started with empty documents is done, documents holds
\* the retrieved documents GradeDocuments kept (none in a run routed to the
\* web search) and one document for each execution of WebSearch; WebSearch
\* has executed at most as often as Generate.
C31_DocumentsAtDone ==
    pc = "END" =>
        /\ Len(documents) =
              (Len(history.retrieved) - history.dropped) + WebSearchCount
        /\ routing.label = "websearch" => Len(history.retrieved) = 0
        /\ WebSearchCount <= GenerateCount

C31_Witness ==
    /\ pc = "END"
    /\ Len(history.retrieved) = 2
    /\ history.dropped = 1
    /\ WebSearchCount = 2
    /\ GenerateCount = 2
    /\ Len(documents) = 3

\* C32: Generate executes with an empty documents list only in a run routed
\* to the vector store whose Retriever returned no documents, web_search
\* then being "No"; in every other case, all retrieved documents graded
\* irrelevant included, documents is not empty when Generate executes.
C32_GenerateWithoutDocuments ==
    (pc \in {"generate", "grade_generation"} /\ documents = <<>>) =>
        /\ routing.label = "vectorstore"
        /\ history.graded
        /\ history.retrieved = <<>>
        /\ web_search = "No"
        /\ WebSearchCount = 0

C32_Witness ==
    /\ pc = "generate"
    /\ GenerateCount = 1
    /\ documents = <<>>
    /\ lastGrade.label = "not supported"

\* C33: with deterministic capabilities, a retry after a generation graded
\* not grounded gives Generate the same documents and yields the same
\* generation, which is graded not grounded again; the run goes on to
\* another such retry or ends because the retries are exhausted, never as
\* a success.
C33_GroundednessRetryRepeats ==
    [][(deterministic /\ lastGrade.label = "not supported") =>
          /\ pc = "generate" =>
                /\ pc' = "grade_generation"
                /\ documents' = documents
                /\ generation' = generation
          /\ pc = "grade_generation" =>
                /\ lastGrade'.grounded = lastGrade.grounded
                /\ lastGrade'.label \in {"not supported", "max retries"}
                /\ pc' = (IF lastGrade'.label = "max retries" THEN "END"
                          ELSE "generate")]_vars

C33_Witness ==
    /\ deterministic
    /\ pc = "END"
    /\ GenerateCount = 2
    /\ WebSearchCount = 0
    /\ lastGrade.grounded = No
    /\ lastGrade.label = "max retries"
    /\ lastGrade.loop_step > max_retries

\* a reply that was given and is no JSON object with the key binary_score
LacksBinaryScore(reply) ==
    /\ reply # NotCalled
    /\ reply.kind # "object" \/ reply.key # "binary_score"

\* C34: a reply of the document grader that is not valid JSON or lacks
\* binary_score ends the run as a failure of GradeDocuments: documents and
\* web_search stay what they were before the node, with no document
\* filtered out, and neither WebSearch nor Generate executes afterwards.
C34_UnreadableDocumentGradeIsFatal ==
    (lastGrading.done /\ \E i \in 1..Len(lastGrading.replies) :
                             LacksBinaryScore(lastGrading.replies[i])) =>
        /\ pc = "failed"
        /\ failure = "grade_documents"
        /\ documents = lastGrading.documents
        /\ documents = history.retrieved
        /\ web_search = "No"
        /\ executed = <<"retrieve">>
        /\ ~ENABLED Next

C34_Witness ==
    /\ pc = "failed"
    /\ lastGrading.done
    /\ lastGrading.replies = <<No, Invalid>>
    /\ Len(documents) = 2
    /\ web_search = "No"

=============================================================================
